---- MODULE Spec2Model ----
(***************************************************************************)
(* Model of bavy-balls' procedural track geometry: the seeded path         *)
(* generator (src/paths.rs), the straight and swept half-cylinder mesh     *)
(* builders and the collision-mesh extractor (src/shapes.rs,               *)
(* src/half_cylinder.rs).                                                  *)
(*                                                                         *)
(* f32 values are modelled as fixed-point integers with two decimals       *)
(* (1.0 is One), plus the value NaN.  Angles are whole degrees.            *)
(***************************************************************************)
EXTENDS Integers, Sequences, FiniteSets, TLC

\* -------------------------------------------------------------------------
\* Bounds of the model
\* -------------------------------------------------------------------------

\* largest cross-section subdivision count of the enumerated configurations
MaxSub == 4
\* largest segment count of the enumerated swept configurations
MaxSeg == 3
\* largest number of vertices of an arbitrary mesh handed to the extractor
MaxVerts == 2
\* largest index-buffer length of an arbitrary mesh handed to the extractor
MaxIdx == 4
\* number of players of a round in the model (N_PLAYERS is 10 in the game)
N_PLAYERS == 2
\* bound of the start delay of a player, in clock ticks (10000 ms in the game)
MAX_DISADVANTAGE_MS == 2
\* number of rounds that can be started
MaxRounds == 2

\* -------------------------------------------------------------------------
\* f32 arithmetic
\* -------------------------------------------------------------------------

\* the f32 value 1.0 in the fixed-point representation
One == 100
\* f32::NAN (a value outside the range of every number the model computes)
NaN == -999999999

IsNaN(a) == a = NaN

\* integer division rounding to nearest, as f32 operations round
RDiv(a, b) == IF a >= 0 THEN (a + (b \div 2)) \div b ELSE -((-a + (b \div 2)) \div b)

FNeg(a) == IF IsNaN(a) THEN NaN ELSE -a
FAdd(a, b) == IF IsNaN(a) \/ IsNaN(b) THEN NaN ELSE a + b
FSub(a, b) == IF IsNaN(a) \/ IsNaN(b) THEN NaN ELSE a - b
FMul(a, b) == IF IsNaN(a) \/ IsNaN(b) THEN NaN ELSE RDiv(a * b, One)

RECURSIVE SqrtIter(_, _, _)
SqrtIter(n, lo, hi) ==
    IF lo >= hi THEN lo
    ELSE LET mid == (lo + hi + 1) \div 2
         IN IF mid * mid <= n THEN SqrtIter(n, mid, hi) ELSE SqrtIter(n, lo, mid - 1)

\* f32::sqrt on a fixed-point square sum (the sum of squares of two-decimal
\* values is already the square of a two-decimal length)
FSqrt(n) == SqrtIter(n, 0, IF n < 46340 THEN n ELSE 46340)

\* sin of a quarter-circle angle, two decimals
SinQ(d) ==
    CASE d = 0 -> 0
      [] d = 18 -> 31
      [] d = 30 -> 50
      [] d = 36 -> 59
      [] d = 45 -> 71
      [] d = 54 -> 81
      [] d = 60 -> 87
      [] d = 72 -> 95
      [] d = 90 -> 100

RECURSIVE Sin(_)
Sin(deg) ==
    IF IsNaN(deg) THEN NaN
    ELSE LET d == deg % 360
         IN IF d <= 90 THEN SinQ(d)
            ELSE IF d <= 180 THEN SinQ(180 - d)
            ELSE -Sin(d - 180)

Cos(deg) == IF IsNaN(deg) THEN NaN ELSE Sin(deg + 90)

\* -------------------------------------------------------------------------
\* Vec3 (glam)
\* -------------------------------------------------------------------------

Vec3(x, y, z) == <<x, y, z>>
ZERO == Vec3(0, 0, 0)
\* Vec3::Y, the world-up axis of both builders
UP == Vec3(0, One, 0)
AXIS_X == Vec3(One, 0, 0)

VecIsNaN(v) == IsNaN(v[1]) \/ IsNaN(v[2]) \/ IsNaN(v[3])

VAdd(a, b) == Vec3(FAdd(a[1], b[1]), FAdd(a[2], b[2]), FAdd(a[3], b[3]))
VSub(a, b) == Vec3(FSub(a[1], b[1]), FSub(a[2], b[2]), FSub(a[3], b[3]))
VNeg(a) == Vec3(FNeg(a[1]), FNeg(a[2]), FNeg(a[3]))
\* Vec3 * f32
VScale(a, s) == Vec3(FMul(a[1], s), FMul(a[2], s), FMul(a[3], s))
Dot(a, b) == FAdd(FAdd(FMul(a[1], b[1]), FMul(a[2], b[2])), FMul(a[3], b[3]))
Cross(a, b) ==
    Vec3(FSub(FMul(a[2], b[3]), FMul(a[3], b[2])),
         FSub(FMul(a[3], b[1]), FMul(a[1], b[3])),
         FSub(FMul(a[1], b[2]), FMul(a[2], b[1])))

Length(v) == FSqrt(v[1] * v[1] + v[2] * v[2] + v[3] * v[3])

\* Vec3::normalize: a vector of zero length gives NaN components
normalize(v) ==
    IF VecIsNaN(v) \/ Length(v) = 0 THEN Vec3(NaN, NaN, NaN)
    ELSE Vec3(RDiv(v[1] * One, Length(v)), RDiv(v[2] * One, Length(v)),
              RDiv(v[3] * One, Length(v)))

\* Vec3::normalize_or_zero: the reciprocal of the length of a NaN vector is
\* NaN and that of the zero vector is infinite; both give Vec3::ZERO
normalize_or_zero(v) ==
    IF VecIsNaN(v) THEN ZERO
    ELSE LET len == Length(v)
         IN IF len = 0 THEN ZERO
            ELSE Vec3(RDiv(v[1] * One, len), RDiv(v[2] * One, len), RDiv(v[3] * One, len))

\* -------------------------------------------------------------------------
\* Quat (glam): a rotation is kept as the sequence of the axis-angle
\* rotations it is the product of
\* -------------------------------------------------------------------------

from_axis_angle(axis, deg) == << [axis |-> axis, deg |-> deg] >>
from_rotation_y(deg) == from_axis_angle(UP, deg)
from_rotation_x(deg) == from_axis_angle(AXIS_X, deg)

\* Quat * Quat
QMul(p, q) == p \o q

\* one axis-angle rotation of v.  glam evaluates
\*   v*(w*w - b.b) + b*(v.b*2) + (b x v)*(w*2),  b = axis*sin(t/2), w = cos(t/2)
\* which is  v*cos t + axis*(axis.v)*(1 - cos t) + (axis x v)*sin t  for the
\* unit axes and the zero axis with the zero vector that the builders pass
Rotate(r, v) ==
    LET c == Cos(r.deg)
        s == Sin(r.deg)
    IN IF IsNaN(c) THEN Vec3(NaN, NaN, NaN)
       ELSE VAdd(VAdd(VScale(v, c),
                      VScale(r.axis, FMul(Dot(r.axis, v), One - c))),
                 VScale(Cross(r.axis, v), s))

\* Quat * Vec3: the rightmost factor acts first
RECURSIVE QApply(_, _)
QApply(q, v) ==
    IF q = <<>> THEN v
    ELSE Rotate(Head(q), QApply(Tail(q), v))

\* -------------------------------------------------------------------------
\* Configurations
\* -------------------------------------------------------------------------

\* a Range<f32> of angles, in degrees
Range(lo, hi) == [lo |-> lo, hi |-> hi]

START == Vec3(0, 0, -(One \div 2))
END == Vec3(0, 0, One \div 2)
NEGATIVE_Z == Vec3(0, 0, -One)

Seeds == {1234, 4321}
YawRanges == {Range(-45, 45), Range(-90, 90), Range(0, 0)}
PitchRanges == {Range(-45, -4), Range(-90, 90), Range(0, 0)}

\* struct HalfCylinderPath, with the defaults of HalfCylinderPath::new for
\* the fields the enumeration does not vary
HalfCylinderPath(radius, segment_length, n_segments, subdivisions, seed, yaw_range, pitch_range) ==
    [mode |-> "swept", start |-> ZERO, end |-> ZERO, forward |-> NEGATIVE_Z,
     radius |-> radius, segment_length |-> segment_length,
     n_segments |-> n_segments, subdivisions |-> subdivisions, seed |-> seed,
     yaw_range |-> yaw_range, pitch_range |-> pitch_range]

\* struct HalfCylinder (the fields of the swept mode are unused)
HalfCylinder(start, end, radius, subdivisions) ==
    [mode |-> "straight", start |-> start, end |-> end, forward |-> ZERO,
     radius |-> radius, segment_length |-> 0,
     n_segments |-> 1, subdivisions |-> subdivisions, seed |-> 0,
     yaw_range |-> Range(0, 0), pitch_range |-> Range(0, 0)]

\* HalfCylinder::new
HalfCylinderNew == HalfCylinder(START, END, One \div 2, 10)

\* the HalfCylinderPath that setup_level builds, for each seed
LevelPath(seed) ==
    HalfCylinderPath(75 * One, 100 * One, 10, 10, seed, Range(-45, 45), Range(-45, -4))

SweptConfigs ==
    { HalfCylinderPath(One \div 2, One, n, s, seed, y, p) :
        n \in 0..MaxSeg, s \in 0..MaxSub, seed \in Seeds,
        y \in YawRanges, p \in PitchRanges }
    \cup { LevelPath(seed) : seed \in Seeds }

StraightConfigs ==
    { HalfCylinder(se[1], se[2], One \div 2, s) :
        se \in { <<START, END>>, <<START, START>>, <<ZERO, UP>> },
        s \in 0..MaxSub }
    \cup { HalfCylinderNew }

Configs == SweptConfigs \cup StraightConfigs

\* -------------------------------------------------------------------------
\* Path generator (src/paths.rs)
\* -------------------------------------------------------------------------

\* SmallRng::seed_from_u64: the generator state is a function of the seed
seed_from_u64(seed) == (7 * seed + 1) % 64

\* one step of the generator's state
RngNext(s) == (5 * s + 3) % 64

\* number of sample points of a range on the 45-degree grid of the model
GridCount(range) == (range.hi - range.lo + 44) \div 45

\* Rng::gen_range on a Range<f32>: panics on an empty range, else advances
\* the generator and returns a value of [lo, hi)
gen_range(rng, range) ==
    IF range.lo >= range.hi
    THEN [panic |-> TRUE, rng |-> rng, value |-> 0]
    ELSE LET s == RngNext(rng)
         IN [panic |-> FALSE, rng |-> s,
             value |-> range.lo + 45 * ((s \div 4) % GridCount(range))]

\* WormPathIterator::next: the yaw is drawn before the pitch
WormNext(it) ==
    LET yaw == gen_range(it.rng, it.yaw_range)
        pitch == gen_range(yaw.rng, it.pitch_range)
    IN IF yaw.panic \/ pitch.panic
       THEN [panic |-> TRUE, it |-> it, item |-> <<>>]
       ELSE [panic |-> FALSE,
             it |-> [it EXCEPT !.rng = pitch.rng],
             item |-> QMul(from_rotation_y(yaw.value), from_rotation_x(pitch.value))]

\* -------------------------------------------------------------------------
\* Mesh (bevy) and the state of one call of a builder
\* -------------------------------------------------------------------------

VARIABLES
    cfg,             \* the shape passed to Mesh::from
    pc,              \* position of the call
    worm_path_iter,  \* the WormPathIterator of the swept builder
    position,        \* let mut position
    forward,         \* forward of the ring being emitted
    right,           \* right of the ring being emitted
    taken,           \* rotations taken from worm_path_iter so far
    i,               \* loop variable i of the vertex and index loops
    j,               \* loop variable j of the swept index loop
    positions,       \* Vec<[f32; 3]>
    normals,         \* Vec<[f32; 3]>
    uvs,             \* Vec<[f32; 2]>
    indices,         \* Vec<u32>
    rings,           \* per ring: the rotation drawn, its forward and centre
    mesh,            \* the Mesh returned
    collider,        \* the Option<ColliderShape> of mesh_to_collider_shape
    history,         \* the earlier calls: configuration, rings and mesh
    state,           \* State<GameState>: the current state
    queued,          \* State<GameState>: the scheduled transition, if any
    round,           \* RoundState: start and players
    now,             \* Instant::now(), in ticks since the start of the round
    world,           \* the entities with a Ball component
    commands,        \* Commands queued by the systems of the running frame
    ran,             \* the on_update(Playing) systems that ran in this frame
    rounds,          \* number of rounds started so far
    spawned          \* per player: balls spawned for it in this round

vars == <<cfg, pc, worm_path_iter, position, forward, right, taken, i, j,
          positions, normals, uvs, indices, rings, mesh, collider, history,
          state, queued, round, now, world, commands, ran, rounds, spawned>>

game == <<state, queued, round, now, world, commands, ran, rounds, spawned>>

build == <<worm_path_iter, position, forward, right, taken, i, j,
           positions, normals, uvs, indices, rings>>

\* a vertex attribute or index buffer that is not set
NoValues == [kind |-> "None", vals |-> <<>>]
Values(kind, vals) == [kind |-> kind, vals |-> vals]

\* no Mesh yet
NoMesh ==
    [topology |-> "None", position |-> NoValues, normal |-> NoValues,
     uv |-> NoValues, indices |-> NoValues]

\* Option::None of ColliderShape
None == [some |-> FALSE, vertices |-> <<>>, indices |-> <<>>]

NoIter == [rng |-> 0, yaw_range |-> Range(0, 0), pitch_range |-> Range(0, 0)]

\* no transition is scheduled
NoTransition == [to |-> "None", by |-> "None"]

\* the application as main() leaves it: add_state(GameState::Menu) and a
\* RoundState without players
GameEntry ==
    /\ state = "Menu"
    /\ queued = NoTransition
    /\ round = [start |-> 0, players |-> <<>>]
    /\ now = 0
    /\ world = {}
    /\ commands = <<>>
    /\ ran = {}
    /\ rounds = 0
    /\ spawned = <<>>

\* the locals of a call before its first statement
Entry ==
    /\ pc = "call"
    /\ worm_path_iter = NoIter
    /\ position = ZERO
    /\ forward = ZERO
    /\ right = ZERO
    /\ taken = 0
    /\ i = 0
    /\ j = 0
    /\ positions = <<>>
    /\ normals = <<>>
    /\ uvs = <<>>
    /\ indices = <<>>
    /\ rings = <<>>
    /\ mesh = NoMesh
    /\ collider = None

Init ==
    /\ cfg \in Configs
    /\ history = <<>>
    /\ Entry
    /\ GameEntry

\* std::f32::consts::PI * i as f32 / subdivisions as f32, in degrees; the
\* loop runs i over 0..=subdivisions, so a zero divisor meets i = 0 only,
\* and 0.0 / 0.0 is NaN
Angle(n, subdivisions) ==
    CASE subdivisions # 0 -> (180 * n) \div subdivisions
      [] subdivisions = 0 /\ n = 0 -> NaN

\* up.cross(-forward).normalize_or_zero() * radius
Right(fwd, radius) == VScale(normalize_or_zero(Cross(UP, VNeg(fwd))), radius)

\* Quat::from_axis_angle(forward, PI * i / subdivisions) * right
Offset(fwd, rgt, n, subdivisions) ==
    QApply(from_axis_angle(fwd, Angle(n, subdivisions)), rgt)

\* the normal without the negation
NormalAlongOffset(offset) == normalize_or_zero(offset)

\* (-offset.normalize_or_zero()).to_array()
Normal(offset) == VNeg(normalize_or_zero(offset))

\* the vertex loops with the exclusive range 0..subdivisions
InVertexRangeExclusive(n, subdivisions) == n < subdivisions

\* the range 0..=subdivisions of the vertex loops
InVertexRange(n, subdivisions) == n <= subdivisions

\* ---- swept mode: impl From<HalfCylinderPath> for Mesh --------------------

\* a generator state that also depends on how many calls came before
UnseededRng == seed_from_u64(cfg.seed + Len(history))

\* the generator state the builder starts from: SmallRng::seed_from_u64(seed)
SeededRng == seed_from_u64(cfg.seed)

\* the ring loop taking one rotation per segment: take(n_segments)
RingCountPerSegment(n_segments) == n_segments

\* the ring loop taking one rotation more than it has rings
RingCountTwoExtra(n_segments) == n_segments + 2

\* the number of rotations the ring loop takes: take(n_segments + 1)
RingCount(n_segments) == n_segments + 1

\* the statements before the ring loop
SweptBegin ==
    /\ pc = "call"
    /\ cfg.mode = "swept"
    /\ position' = cfg.start
    /\ worm_path_iter' = [rng |-> SeededRng,
                          yaw_range |-> cfg.yaw_range,
                          pitch_range |-> cfg.pitch_range]
    /\ pc' = "swept_ring"
    /\ UNCHANGED <<cfg, forward, right, taken, i, j, positions, normals, uvs,
                   indices, rings, mesh, collider, history>>
    /\ UNCHANGED game

\* forward of a ring if the rotation were applied to the forward of the ring
\* before it
RingForwardAccumulated(rotation) ==
    QApply(rotation, IF rings = <<>> THEN cfg.forward ELSE forward)

\* forward of a ring: let forward = rotation * forward, where the forward on
\* the right is the field of the shape (the let shadows it inside the loop body)
RingForward(rotation) == QApply(rotation, cfg.forward)

\* head of the ring loop: take(n_segments + 1) pulls the next rotation
SweptRing ==
    /\ pc = "swept_ring"
    /\ taken < RingCount(cfg.n_segments)
    /\ LET nxt == WormNext(worm_path_iter)
       IN IF nxt.panic
          THEN /\ pc' = "panicked"
               /\ UNCHANGED <<worm_path_iter, forward, right, taken, i, rings>>
          ELSE /\ pc' = "swept_vertex"
               /\ worm_path_iter' = nxt.it
               /\ taken' = taken + 1
               /\ forward' = RingForward(nxt.item)
               /\ right' = Right(RingForward(nxt.item), cfg.radius)
               /\ i' = 0
               /\ rings' = Append(rings, [rotation |-> nxt.item,
                                          forward |-> RingForward(nxt.item),
                                          centre |-> position])
    /\ UNCHANGED <<cfg, position, j, positions, normals, uvs, indices, mesh,
                   collider, history>>
    /\ UNCHANGED game

\* the vertex that one iteration of the inner loop pushes
SweptVertexPosition(offset) == VAdd(position, offset)

\* body of the inner vertex loop
SweptVertex ==
    /\ pc = "swept_vertex"
    /\ InVertexRange(i, cfg.subdivisions)
    /\ LET offset == Offset(forward, right, i, cfg.subdivisions)
       IN /\ positions' = Append(positions, SweptVertexPosition(offset))
          /\ normals' = Append(normals, Normal(offset))
          /\ uvs' = Append(uvs, <<0, 0>>)
    /\ i' = i + 1
    /\ UNCHANGED <<cfg, pc, worm_path_iter, position, forward, right, taken, j,
                   indices, rings, mesh, collider, history>>
    /\ UNCHANGED game

\* the position moved against the forward direction
AdvancedBackwards(pos, fwd, segment_length) ==
    VSub(pos, VScale(fwd, segment_length))

\* position += forward * segment_length
Advanced(pos, fwd, segment_length) == VAdd(pos, VScale(fwd, segment_length))

\* end of the ring: the position moves on to the centre of the next ring
SweptAdvance ==
    /\ pc = "swept_vertex"
    /\ ~InVertexRange(i, cfg.subdivisions)
    /\ position' = Advanced(position, forward, cfg.segment_length)
    /\ pc' = "swept_ring"
    /\ UNCHANGED <<cfg, worm_path_iter, forward, right, taken, i, j, positions,
                   normals, uvs, indices, rings, mesh, collider, history>>
    /\ UNCHANGED game

\* the ring loop ends after n_segments + 1 rotations
SweptRingsDone ==
    /\ pc = "swept_ring"
    /\ taken >= RingCount(cfg.n_segments)
    /\ pc' = "swept_index"
    /\ i' = 0
    /\ j' = 0
    /\ UNCHANGED <<cfg, worm_path_iter, position, forward, right, taken,
                   positions, normals, uvs, indices, rings, mesh, collider, history>>
    /\ UNCHANGED game

\* the quad with its far corner one vertex too far
SweptQuadIndicesOffByOne(offset, segment_vertex_count) ==
    << offset + 1,
       offset,
       offset + segment_vertex_count,
       offset + segment_vertex_count,
       offset + segment_vertex_count + 2,
       offset + 1 >>

\* the quad with the first two slots of its first triangle exchanged
SweptQuadIndicesSwapped(offset, segment_vertex_count) ==
    << offset,
       offset + 1,
       offset + segment_vertex_count,
       offset + segment_vertex_count,
       offset + segment_vertex_count + 1,
       offset + 1 >>

\* the quad with both of its triangles listed in the reverse order
SweptQuadIndicesReversed(offset, segment_vertex_count) ==
    << offset,
       offset + 1,
       offset + segment_vertex_count,
       offset + segment_vertex_count + 1,
       offset + segment_vertex_count,
       offset + 1 >>

\* the quad with its second triangle closed over the other diagonal
SweptQuadIndicesCrossedDiagonal(offset, segment_vertex_count) ==
    << offset + 1,
       offset,
       offset + segment_vertex_count,
       offset + segment_vertex_count,
       offset + segment_vertex_count + 1,
       offset >>

\* the six indices of one quad of the swept tube
SweptQuadIndices(offset, segment_vertex_count) ==
    << offset + 1,
       offset,
       offset + segment_vertex_count,
       offset + segment_vertex_count,
       offset + segment_vertex_count + 1,
       offset + 1 >>

\* body of the inner index loop
SweptQuad ==
    /\ pc = "swept_index"
    /\ i < cfg.n_segments
    /\ j < cfg.subdivisions
    /\ LET segment_vertex_count == cfg.subdivisions + 1
           segment_offset == segment_vertex_count * i
       IN indices' = indices \o SweptQuadIndices(segment_offset + j, segment_vertex_count)
    /\ j' = j + 1
    /\ UNCHANGED <<cfg, pc, worm_path_iter, position, forward, right, taken, i,
                   positions, normals, uvs, rings, mesh, collider, history>>
    /\ UNCHANGED game

\* the inner index loop ends: next segment
SweptSegmentDone ==
    /\ pc = "swept_index"
    /\ i < cfg.n_segments
    /\ j >= cfg.subdivisions
    /\ i' = i + 1
    /\ j' = 0
    /\ UNCHANGED <<cfg, pc, worm_path_iter, position, forward, right, taken,
                   positions, normals, uvs, indices, rings, mesh, collider, history>>
    /\ UNCHANGED game

\* the outer index loop ends
SweptIndicesDone ==
    /\ pc = "swept_index"
    /\ i >= cfg.n_segments
    /\ pc' = "mesh"
    /\ UNCHANGED <<cfg, worm_path_iter, position, forward, right, taken, i, j,
                   positions, normals, uvs, indices, rings, mesh, collider, history>>
    /\ UNCHANGED game

\* ---- straight mode: impl From<HalfCylinder> for Mesh ---------------------

\* the statements before the vertex loop
StraightBegin ==
    /\ pc = "call"
    /\ cfg.mode = "straight"
    /\ forward' = normalize_or_zero(VSub(cfg.end, cfg.start))
    /\ right' = Right(normalize_or_zero(VSub(cfg.end, cfg.start)), cfg.radius)
    /\ i' = 0
    /\ pc' = "straight_vertex"
    /\ UNCHANGED <<cfg, worm_path_iter, position, taken, j, positions, normals,
                   uvs, indices, rings, mesh, collider, history>>
    /\ UNCHANGED game

\* body of the vertex loop: the start point, then the end point
StraightVertex ==
    /\ pc = "straight_vertex"
    /\ InVertexRange(i, cfg.subdivisions)
    /\ LET offset == Offset(forward, right, i, cfg.subdivisions)
       IN /\ positions' = positions \o << VAdd(cfg.start, offset), VAdd(cfg.end, offset) >>
          /\ normals' = normals \o << Normal(offset), Normal(offset) >>
          /\ uvs' = uvs \o << <<0, 0>>, <<0, 0>> >>
    /\ i' = i + 1
    /\ UNCHANGED <<cfg, pc, worm_path_iter, position, forward, right, taken, j,
                   indices, rings, mesh, collider, history>>
    /\ UNCHANGED game

\* the vertex loop ends
StraightVerticesDone ==
    /\ pc = "straight_vertex"
    /\ ~InVertexRange(i, cfg.subdivisions)
    /\ pc' = "straight_index"
    /\ i' = 0
    /\ UNCHANGED <<cfg, worm_path_iter, position, forward, right, taken, j,
                   positions, normals, uvs, indices, rings, mesh, collider, history>>
    /\ UNCHANGED game

\* the quad of the straight tube with its second triangle left out
StraightQuadIndicesOneTriangle(offset) ==
    << offset + 2, offset, offset + 1 >>

\* the quad with the first two slots of both of its triangles exchanged
StraightQuadIndicesSwapped(offset) ==
    << offset, offset + 2, offset + 1, offset + 3, offset + 1, offset + 2 >>

\* the six indices of one quad of the straight tube
StraightQuadIndices(offset) ==
    << offset + 2, offset, offset + 1, offset + 1, offset + 3, offset + 2 >>

\* body of the index loop
StraightQuad ==
    /\ pc = "straight_index"
    /\ i < cfg.subdivisions
    /\ indices' = indices \o StraightQuadIndices(i * 2)
    /\ i' = i + 1
    /\ UNCHANGED <<cfg, pc, worm_path_iter, position, forward, right, taken, j,
                   positions, normals, uvs, rings, mesh, collider, history>>
    /\ UNCHANGED game

\* the index loop ends
StraightIndicesDone ==
    /\ pc = "straight_index"
    /\ i >= cfg.subdivisions
    /\ pc' = "mesh"
    /\ UNCHANGED <<cfg, worm_path_iter, position, forward, right, taken, i, j,
                   positions, normals, uvs, indices, rings, mesh, collider, history>>
    /\ UNCHANGED game

\* ---- both modes: the Mesh is assembled and returned ----------------------

\* the Mesh with its indices stored as Indices::U16
NewMeshU16(p, n, u, idx) ==
    [topology |-> "TriangleList",
     position |-> Values("Float32x3", p),
     normal |-> Values("Float32x3", n),
     uv |-> Values("Float32x2", u),
     indices |-> Values("U16", idx)]

\* Mesh::new(TriangleList), set_attribute x 3, set_indices(Some(U32(indices)))
NewMesh(p, n, u, idx) ==
    [topology |-> "TriangleList",
     position |-> Values("Float32x3", p),
     normal |-> Values("Float32x3", n),
     uv |-> Values("Float32x2", u),
     indices |-> Values("U32", idx)]

MeshReturn ==
    /\ pc = "mesh"
    /\ mesh' = NewMesh(positions, normals, uvs, indices)
    /\ pc' = "done"
    /\ UNCHANGED <<cfg, build, collider, history>>
    /\ UNCHANGED game

\* -------------------------------------------------------------------------
\* Collision-mesh extractor
\* -------------------------------------------------------------------------

\* Point3::from_slice
Point3(p) == [x |-> p[1], y |-> p[2], z |-> p[3]]

\* slice::windows(3) in place of chunks_exact(3)
TrianglesWindows(idx) ==
    [t \in 1..(IF Len(idx) >= 3 THEN Len(idx) - 2 ELSE 0) |->
        << idx[t], idx[t + 1], idx[t + 2] >>]

\* slice::chunks_exact(3) mapped to [tri[0], tri[1], tri[2]]
Triangles(idx) ==
    [t \in 1..(Len(idx) \div 3) |-> << idx[3 * t - 2], idx[3 * t - 1], idx[3 * t] >>]

\* ColliderShape::trimesh(vertices, indices)
Trimesh(vertices, tris) == [some |-> TRUE, vertices |-> vertices, indices |-> tris]

\* an extractor that takes a missing attribute or index buffer as empty
mesh_to_collider_shape_or_default(m) ==
    Trimesh(IF m.position.kind = "Float32x3"
            THEN [v \in 1..Len(m.position.vals) |-> Point3(m.position.vals[v])]
            ELSE <<>>,
            IF m.indices.kind = "U32" THEN Triangles(m.indices.vals) ELSE <<>>)

mesh_to_collider_shape(m) ==
    IF m.position.kind # "Float32x3" THEN None
    ELSE IF m.indices.kind # "U32" THEN None
    ELSE Trimesh([v \in 1..Len(m.position.vals) |-> Point3(m.position.vals[v])],
                 Triangles(m.indices.vals))

\* setup_level: the collider of the mesh just built
Collide ==
    /\ pc = "done"
    /\ collider' = mesh_to_collider_shape(mesh)
    /\ pc' = "collided"
    /\ UNCHANGED <<cfg, build, mesh, history>>
    /\ UNCHANGED game

\* -------------------------------------------------------------------------
\* A later call of the builder (setup_level runs on every entry to Playing,
\* with a seed of its choice)
\* -------------------------------------------------------------------------

\* number of later calls the model follows
MaxReruns == 1

Rerun ==
    /\ pc \in {"done", "collided"}
    /\ Len(history) < MaxReruns
    /\ history' = Append(history, [cfg |-> cfg, rings |-> rings, mesh |-> mesh])
    /\ cfg' \in (IF cfg.mode = "swept"
                 THEN {[cfg EXCEPT !.seed = s] : s \in Seeds}
                 ELSE {cfg})
    /\ pc' = "call"
    /\ worm_path_iter' = NoIter
    /\ position' = ZERO
    /\ forward' = ZERO
    /\ right' = ZERO
    /\ taken' = 0
    /\ i' = 0
    /\ j' = 0
    /\ positions' = <<>>
    /\ normals' = <<>>
    /\ uvs' = <<>>
    /\ indices' = <<>>
    /\ rings' = <<>>
    /\ mesh' = NoMesh
    /\ collider' = None
    /\ UNCHANGED game

Next ==
    \/ SweptBegin
    \/ SweptRing
    \/ SweptVertex
    \/ SweptAdvance
    \/ SweptRingsDone
    \/ SweptQuad
    \/ SweptSegmentDone
    \/ SweptIndicesDone
    \/ StraightBegin
    \/ StraightVertex
    \/ StraightVerticesDone
    \/ StraightQuad
    \/ StraightIndicesDone
    \/ MeshReturn
    \/ Collide
    \/ Rerun

Spec == Init /\ [][Next]_vars

\* ---- the extractor on arbitrary meshes -----------------------------------

\* all sequences over S of length at most n
SeqUpTo(S, n) == UNION { [1..m -> S] : m \in 0..n }

Points == { Vec3(0, 0, 0), Vec3(One, 0, -One) }
Pairs == { <<0, 0>>, <<One, 0>> }
Topologies == { "TriangleList", "TriangleStrip", "LineList" }

PositionValues ==
    { NoValues }
    \cup { Values("Float32x3", v) : v \in SeqUpTo(Points, MaxVerts) }
    \cup { Values("Float32x2", v) : v \in SeqUpTo(Pairs, MaxVerts) }

IndexValues ==
    { NoValues }
    \cup { Values("U32", v) : v \in SeqUpTo(0..1, MaxIdx) }
    \cup { Values("U16", v) : v \in SeqUpTo(0..1, MaxIdx) }

Meshes ==
    { [topology |-> t, position |-> p, normal |-> NoValues, uv |-> NoValues,
       indices |-> x] : t \in Topologies, p \in PositionValues, x \in IndexValues }

InitCollider ==
    /\ cfg = HalfCylinderNew
    /\ history = <<>>
    /\ pc = "done"
    /\ worm_path_iter = NoIter
    /\ position = ZERO
    /\ forward = ZERO
    /\ right = ZERO
    /\ taken = 0
    /\ i = 0
    /\ j = 0
    /\ positions = <<>>
    /\ normals = <<>>
    /\ uvs = <<>>
    /\ indices = <<>>
    /\ rings = <<>>
    /\ mesh \in Meshes
    /\ collider = None
    /\ GameEntry

NextCollider == Collide

SpecCollider == InitCollider /\ [][NextCollider]_vars

\* -------------------------------------------------------------------------
\* Properties of the mesh builders
\* -------------------------------------------------------------------------

\* a Mesh has been returned by the builder
Built == pc \in {"done", "collided"}

VertexCount == Len(mesh.position.vals)
IndexCount == Len(mesh.indices.vals)

\* C1: for subdivisions >= 1 and n_segments >= 0, in swept and in straight
\* mode, every triangle index of the returned mesh is a vertex id: it is
\* less than the number of vertices emitted
C1_IndicesBelowVertexCount ==
    (Built /\ cfg.subdivisions >= 1 /\ cfg.n_segments >= 0)
        => \A p \in 1..IndexCount :
              /\ mesh.indices.vals[p] >= 0
              /\ mesh.indices.vals[p] < VertexCount

\* a swept tube of several segments whose largest index is the last vertex
C1_Witness ==
    /\ Built
    /\ cfg.mode = "swept"
    /\ cfg.subdivisions >= 2
    /\ cfg.n_segments >= 2
    /\ \E p \in 1..IndexCount : mesh.indices.vals[p] = VertexCount - 1

\* C2: in swept mode the builder emits (subdivisions+1) * (n_segments+1)
\* vertices; positions, normals and texture coordinates have that length
\* and every texture coordinate is zero
C2_SweptVertexCount ==
    (Built /\ cfg.mode = "swept")
        => /\ VertexCount = (cfg.subdivisions + 1) * (cfg.n_segments + 1)
           /\ mesh.position.kind = "Float32x3"
           /\ Len(mesh.normal.vals) = VertexCount
           /\ Len(mesh.uv.vals) = VertexCount
           /\ \A v \in 1..VertexCount : mesh.uv.vals[v] = <<0, 0>>

\* a swept tube of three rings of four vertices
C2_Witness ==
    /\ Built
    /\ cfg.mode = "swept"
    /\ cfg.subdivisions = 3
    /\ cfg.n_segments = 2
    /\ VertexCount = 12
    /\ Len(mesh.uv.vals) = 12

\* the index the swept builder is to put at place p (from 1) of the buffer
SweptIndexAt(p, n_segments, subdivisions) ==
    LET svc == subdivisions + 1
        k == (p - 1) \div (6 * subdivisions)
        c == ((p - 1) \div 6) % subdivisions
        slot == (p - 1) % 6
        offset == k * svc + c
    IN CASE slot = 0 -> offset + 1
         [] slot = 1 -> offset
         [] slot = 2 -> offset + svc
         [] slot = 3 -> offset + svc
         [] slot = 4 -> offset + svc + 1
         [] slot = 5 -> offset + 1

\* C3: in swept mode the index buffer is, for each ring pair k and each
\* column j in that order, (offset+1, offset, offset+svc, offset+svc,
\* offset+svc+1, offset+1) with svc = subdivisions+1, offset = k*svc + j;
\* its length is 6 * n_segments * subdivisions: 600 indices, and 121
\* vertices, for n_segments = 10 and subdivisions = 10
C3_SweptIndexBuffer ==
    (Built /\ cfg.mode = "swept")
        => /\ IndexCount = 6 * cfg.n_segments * cfg.subdivisions
           /\ mesh.indices.kind = "U32"
           /\ \A p \in 1..IndexCount :
                 mesh.indices.vals[p] = SweptIndexAt(p, cfg.n_segments, cfg.subdivisions)
           /\ (cfg.n_segments = 10 /\ cfg.subdivisions = 10)
                 => (IndexCount = 600 /\ VertexCount = 121)

\* the tube of setup_level, built
C3_Witness ==
    /\ Built
    /\ cfg = LevelPath(4321)
    /\ IndexCount = 600
    /\ VertexCount = 121

\* C4: in straight mode the builder emits 2 * (subdivisions+1) vertices and
\* 6 * subdivisions indices; 22 vertices and 60 indices for HalfCylinder::new
C4_StraightCounts ==
    (Built /\ cfg.mode = "straight")
        => /\ VertexCount = 2 * (cfg.subdivisions + 1)
           /\ Len(mesh.normal.vals) = VertexCount
           /\ IndexCount = 6 * cfg.subdivisions
           /\ cfg = HalfCylinderNew => (VertexCount = 22 /\ IndexCount = 60)

\* the default half-cylinder, built
C4_Witness ==
    /\ Built
    /\ cfg = HalfCylinderNew
    /\ VertexCount = 22
    /\ IndexCount = 60

\* C5: generation is deterministic.  Against every earlier call made with the
\* same configuration (same seed, same yaw and pitch ranges), the rotation
\* the generator returns at each position k equals the rotation the earlier
\* generator returned at k, and the mesh returned has the same vertex,
\* normal, texture-coordinate and index buffers
C5_Deterministic ==
    \A r \in 1..Len(history) :
        history[r].cfg = cfg
            => /\ \A k \in 1..Len(rings) :
                     /\ k <= Len(history[r].rings)
                     /\ rings[k].rotation = history[r].rings[k].rotation
               /\ Built => mesh = history[r].mesh

\* a second swept build with the seed and ranges of the first, returned,
\* whose generator gave different rotations at different positions
C5_Witness ==
    /\ Built
    /\ cfg.mode = "swept"
    /\ Len(history) = 1
    /\ history[1].cfg = cfg
    /\ Len(rings) = 3
    /\ rings[1].rotation # rings[2].rotation
    /\ rings[2].rotation # rings[3].rotation
    /\ VertexCount > 0
    /\ mesh.position.vals # [v \in 1..VertexCount |-> mesh.position.vals[1]]

\* -------------------------------------------------------------------------
\* Properties of the collision-mesh extractor
\* -------------------------------------------------------------------------

\* mesh_to_collider_shape has returned
Extracted == pc = "collided"

\* C6: for a mesh with 3-component float positions and a 32-bit index buffer
\* of length L the extractor returns geometry whose vertex list is the
\* position list, entry by entry in the same order, and whose triangle list
\* has floor(L/3) triangles, triangle t (from 0) being
\* (indices[3t], indices[3t+1], indices[3t+2]); the last L mod 3 indices
\* are dropped
C6_ExtractorCopies ==
    (Extracted /\ mesh.position.kind = "Float32x3" /\ mesh.indices.kind = "U32")
        => /\ collider.some
           /\ Len(collider.vertices) = Len(mesh.position.vals)
           /\ \A v \in 1..Len(mesh.position.vals) :
                 /\ collider.vertices[v].x = mesh.position.vals[v][1]
                 /\ collider.vertices[v].y = mesh.position.vals[v][2]
                 /\ collider.vertices[v].z = mesh.position.vals[v][3]
           /\ Len(collider.indices) = Len(mesh.indices.vals) \div 3
           /\ \A t \in 0..(Len(collider.indices) - 1) :
                 collider.indices[t + 1] = << mesh.indices.vals[3 * t + 1],
                                              mesh.indices.vals[3 * t + 2],
                                              mesh.indices.vals[3 * t + 3] >>

\* a mesh with a repeated position and four indices, extracted to two
\* vertices and one triangle
C6_Witness ==
    /\ Extracted
    /\ mesh.position.kind = "Float32x3"
    /\ mesh.indices.kind = "U32"
    /\ Len(mesh.position.vals) = 2
    /\ mesh.position.vals[1] = mesh.position.vals[2]
    /\ Len(mesh.indices.vals) = 4
    /\ mesh.indices.vals[4] # mesh.indices.vals[1]
    /\ Len(collider.vertices) = 2
    /\ Len(collider.indices) = 1

\* C7: the extractor returns None, and no geometry, when the mesh has no
\* position attribute, when its positions are not 3-component floats, or
\* when it has no index buffer
C7_ExtractorFails ==
    (Extracted /\ (\/ mesh.position.kind = "None"
                   \/ mesh.position.kind # "Float32x3"
                   \/ mesh.indices.kind = "None"))
        => /\ ~collider.some
           /\ collider.vertices = <<>>
           /\ collider.indices = <<>>

\* a mesh with positions and no index buffer, extracted to None
C7_Witness ==
    /\ Extracted
    /\ mesh.position.kind = "Float32x3"
    /\ Len(mesh.position.vals) > 0
    /\ mesh.indices.kind = "None"
    /\ ~collider.some

\* C8: the extractor fails for a mesh that has positions and indices but
\* whose primitive topology is not a triangle list
C8_NonTriangleListFails ==
    (Extracted /\ mesh.position.kind = "Float32x3" /\ mesh.indices.kind = "U32"
               /\ mesh.topology # "TriangleList")
        => ~collider.some

\* -------------------------------------------------------------------------
\* Edge cases of the builders
\* -------------------------------------------------------------------------

\* C9: building a mesh with subdivisions == 0, in swept or in straight mode,
\* fails with an invalid-configuration error: no mesh is returned, and in
\* particular none whose positions or normals are NaN
C9_ZeroSubdivisionsRejected ==
    cfg.subdivisions = 0
        => /\ mesh = NoMesh
           /\ \A v \in 1..Len(mesh.position.vals) : ~VecIsNaN(mesh.position.vals[v])
           /\ \A v \in 1..Len(mesh.normal.vals) : ~VecIsNaN(mesh.normal.vals[v])

\* both angle ranges of the configuration are non-empty
RangesNonEmpty ==
    /\ cfg.yaw_range.lo < cfg.yaw_range.hi
    /\ cfg.pitch_range.lo < cfg.pitch_range.hi

\* the mesh of one ring of subdivisions+1 vertices and no triangle
SingleRingMesh ==
    /\ Len(rings) = 1
    /\ VertexCount = cfg.subdivisions + 1
    /\ Len(mesh.normal.vals) = cfg.subdivisions + 1
    /\ mesh.indices.kind = "U32"
    /\ IndexCount = 0

\* C10: swept mode with n_segments == 0 and subdivisions >= 1 (and the
\* non-empty angle ranges of a path configuration) succeeds: the call does
\* not panic, it leaves the ring loop after one ring and the index loops
\* with nothing pushed, and the mesh it returns has one ring of
\* subdivisions+1 vertices and an index buffer that is present and empty
C10_SingleRing ==
    (cfg.mode = "swept" /\ cfg.n_segments = 0 /\ cfg.subdivisions >= 1 /\ RangesNonEmpty)
        => /\ pc # "panicked"
           /\ Len(rings) <= 1
           /\ indices = <<>>
           /\ pc \in {"swept_index", "mesh"} => Len(positions) = cfg.subdivisions + 1
           /\ Built => SingleRingMesh

\* a swept mesh of no segment and three subdivisions, returned
C10_Witness ==
    /\ Built
    /\ cfg.mode = "swept"
    /\ cfg.n_segments = 0
    /\ cfg.subdivisions = 3
    /\ Len(rings) = 1
    /\ VertexCount = 4
    /\ IndexCount = 0

\* -------------------------------------------------------------------------
\* Properties of the path and of the rings
\* -------------------------------------------------------------------------

\* C11: a path configuration whose yaw_range or pitch_range is empty
\* (low >= high) is rejected when the path generator is constructed: no
\* generator holding an empty range exists, the call does not crash, no
\* orientation step is drawn and no mesh is produced
C11_EmptyRangeRejected ==
    (cfg.mode = "swept" /\ ~RangesNonEmpty)
        => /\ worm_path_iter = NoIter
           /\ pc # "panicked"
           /\ rings = <<>>
           /\ mesh = NoMesh

\* the forward ring k would have if turning accumulated along the path
AccumulatedForward(k) ==
    QApply(rings[k].rotation,
           IF k = 1 THEN cfg.forward ELSE rings[k - 1].forward)

\* index in positions of the first vertex of ring k
FirstVertexOf(k) == (k - 1) * (cfg.subdivisions + 1) + 1

\* C12 as stated: the forward of ring k is the forward computed for ring
\* k-1 (the configured forward for ring 0) rotated by the k-th step, so
\* that turning accumulates from ring to ring
C12_ForwardAccumulates ==
    cfg.mode = "swept"
        => \A k \in 1..Len(rings) : rings[k].forward = AccumulatedForward(k)

\* C12: the forward of every ring is the configured initial forward rotated
\* by that ring's own step only, and the ring is laid out around it: with
\* subdivisions >= 1 its first vertex is the centre plus the lateral vector
\* of that forward; turning does not accumulate from ring to ring
C12_ForwardFromInitial ==
    cfg.mode = "swept"
        => \A k \in 1..Len(rings) :
              /\ rings[k].forward = QApply(rings[k].rotation, cfg.forward)
              /\ (cfg.subdivisions >= 1 /\ FirstVertexOf(k) <= Len(positions))
                    => positions[FirstVertexOf(k)] =
                          VAdd(rings[k].centre,
                               Right(QApply(rings[k].rotation, cfg.forward),
                                     cfg.radius))

\* a finished tube whose second ring would point elsewhere had the turning
\* accumulated
C12_Witness ==
    /\ cfg.mode = "swept"
    /\ Built
    /\ cfg.subdivisions >= 1
    /\ Len(rings) >= 2
    /\ rings[2].forward # AccumulatedForward(2)
    /\ rings[2].forward = QApply(rings[2].rotation, cfg.forward)

\* the ring centre that vertex v of positions was placed around: ring
\* v / (subdivisions + 1) of the path in swept mode; start for the first and
\* end for the second vertex of each pair in straight mode
CentreOf(v) ==
    IF cfg.mode = "swept"
    THEN rings[((v - 1) \div (cfg.subdivisions + 1)) + 1].centre
    ELSE IF v % 2 = 1 THEN cfg.start ELSE cfg.end

\* the vector from the ring centre to vertex v
OffsetOf(v) == VSub(positions[v], CentreOf(v))

\* the vertices whose offset from the ring centre is a non-zero vector
OffCentre == { v \in 1..Len(normals) : ~VecIsNaN(OffsetOf(v)) /\ OffsetOf(v) # ZERO }

\* C13 as stated: every stored normal points outward, that is, has a positive
\* component along the direction from its ring's centre to its vertex
C13_NormalsOutward ==
    \A v \in OffCentre : Dot(normals[v], OffsetOf(v)) > 0

\* C13: every stored normal of a vertex with a non-zero (and not NaN) offset
\* from its ring centre points from the vertex toward the tube axis: it has
\* a negative component along the direction from the centre to the vertex
C13_NormalsInward ==
    \A v \in OffCentre : Dot(normals[v], OffsetOf(v)) < 0

\* a finished tube of several rings, all of whose vertices are off centre
C13_Witness ==
    /\ Built
    /\ cfg.subdivisions >= 2
    /\ Len(normals) >= 2 * (cfg.subdivisions + 1)
    /\ OffCentre = 1..Len(normals)
    /\ \A v \in OffCentre : Dot(normals[v], OffsetOf(v)) < 0

\* number of triangles of the index buffer built so far
TriangleCount == Len(indices) \div 3

\* index in positions of corner c (1, 2 or 3) of triangle t
Corner(t, c) == indices[3 * (t - 1) + c] + 1

\* the face direction of triangle t implied by its winding: the cross
\* product of its edges taken in index order
Face(t) ==
    Cross(VSub(positions[Corner(t, 2)], positions[Corner(t, 1)]),
          VSub(positions[Corner(t, 3)], positions[Corner(t, 1)]))

\* the winding of triangle t agrees with the stored normals of its corners
WindingAgrees(t) ==
    \A c \in 1..3 : Dot(Face(t), normals[Corner(t, c)]) > 0


\* the first of the two rings that triangle t of a swept tube connects
RingPairOf(t) == ((t - 1) \div (2 * cfg.subdivisions)) + 1

\* no ring of the tube has collapsed: every ring has a lateral vector
RingsOpen ==
    IF cfg.mode = "swept"
    THEN \A k \in 1..Len(rings) : Right(rings[k].forward, cfg.radius) # ZERO
    ELSE right # ZERO

\* the two rings of triangle t have the same forward direction
Aligned(t) ==
    cfg.mode = "swept"
        => rings[RingPairOf(t)].forward = rings[RingPairOf(t) + 1].forward

StraightRef(v) == << v % 2, v \div 2 >>

\* vertex id v of a swept tube as a (ring, column) reference: ring k holds
\* the ids k * (subdivisions + 1) + column
SweptRef(v) == << v \div (cfg.subdivisions + 1), v % (cfg.subdivisions + 1) >>

\* corner c of triangle t of the straight tube, as a (ring, column) reference
StraightCorner(t, c) == StraightRef(indices[3 * (t - 1) + c])

\* corner c of triangle t of a one-segment swept tube with the same number
\* of subdivisions, as a (ring, column) reference
SweptCorner(t, c) ==
    SweptRef(SweptQuadIndices((t - 1) \div 2, cfg.subdivisions + 1)
                [3 * ((t - 1) % 2) + c])

\* triangle t of the straight tube is the swept triangle with the slots a
\* and b exchanged
SwappedAt(t, a, b) ==
    \A c \in 1..3 :
        StraightCorner(t, c) =
            SweptCorner(t, IF c = a THEN b ELSE IF c = b THEN a ELSE c)

\* C15 as stated: as (ring, column) references, every triangle of straight
\* mode is the corresponding triangle of a one-segment swept tube with two
\* index slots exchanged, so it has the opposite orientation
C15_StraightWindingOpposite ==
    (Built /\ cfg.mode = "straight")
        => \A t \in 1..TriangleCount :
              \E a, b \in 1..3 : a < b /\ SwappedAt(t, a, b)

\* C15: as (ring, column) references, every triangle of straight mode is the
\* corresponding triangle of a one-segment swept tube slot by slot: the two
\* modes triangulate with the same orientation and differ only in how the
\* vertices are numbered
C15_StraightWindingSame ==
    (Built /\ cfg.mode = "straight")
        => /\ TriangleCount = 2 * cfg.subdivisions
           /\ \A t \in 1..TriangleCount :
                 \A c \in 1..3 : StraightCorner(t, c) = SweptCorner(t, c)

\* a finished straight tube of several quads
C15_Witness ==
    /\ Built
    /\ cfg.mode = "straight"
    /\ cfg.subdivisions >= 2
    /\ TriangleCount = 2 * cfg.subdivisions
    /\ StraightCorner(TriangleCount, 1) = SweptCorner(TriangleCount, 1)


\* the forward direction of the ring that vertex v of positions belongs to
ForwardOf(v) ==
    IF cfg.mode = "swept"
    THEN rings[((v - 1) \div (cfg.subdivisions + 1)) + 1].forward
    ELSE forward

\* f is parallel to world-up (Vec3::Y) or is the zero vector
AlongUp(f) == f[1] = 0 /\ f[3] = 0

\* the vertices of the rings whose forward is parallel to world-up or zero
Collapsed == { v \in 1..Len(positions) : AlongUp(ForwardOf(v)) }

\* C16: with subdivisions >= 1, when the forward direction of a ring is
\* parallel to world-up or zero, the lateral vector is the zero vector:
\* every vertex of the ring is at the ring's centre, every normal of the
\* ring is the zero vector, nothing is NaN and the call does not fail
C16_ParallelForwardCollapses ==
    cfg.subdivisions >= 1
        => /\ \A v \in Collapsed :
                /\ Right(ForwardOf(v), cfg.radius) = ZERO
                /\ positions[v] = CentreOf(v)
                /\ ~VecIsNaN(positions[v])
                /\ normals[v] = ZERO
           /\ (Collapsed # {} /\ pc = "swept_ring"
                 /\ taken < RingCount(cfg.n_segments))
                 => ~WormNext(worm_path_iter).panic
           /\ (Collapsed # {} /\ Built) => mesh.position.vals = positions

\* a finished swept tube in which one ring has collapsed onto its centre
\* and another has not
C16_Witness ==
    /\ Built
    /\ cfg.mode = "swept"
    /\ cfg.subdivisions >= 2
    /\ \E k \in 1..Len(rings) :
          /\ AlongUp(rings[k].forward)
          /\ rings[k].forward # ZERO
          /\ \A n \in 0..cfg.subdivisions :
                /\ positions[FirstVertexOf(k) + n] = rings[k].centre
                /\ normals[FirstVertexOf(k) + n] = ZERO
    /\ \E v \in 1..Len(positions) : positions[v] # CentreOf(v)


\* the e-th directed edge of the index buffer: triangle (e - 1) / 3 runs
\* from each of its corners to the next one, and from the third to the first
EdgeAt(e) ==
    LET base == 3 * ((e - 1) \div 3)
        c == (e - 1) % 3
    IN << indices[base + c + 1], indices[base + ((c + 1) % 3) + 1] >>

\* number of triangles that traverse the edge from vertex a to vertex b
Uses(a, b) == Cardinality({ e \in 1..Len(indices) : EdgeAt(e) = <<a, b>> })

\* both ends of the edge lie on the first ring, on the last ring, on column
\* 0 or on column subdivisions of the swept tube
OnBoundary(a, b) ==
    \/ SweptRef(a)[1] = 0 /\ SweptRef(b)[1] = 0
    \/ SweptRef(a)[1] = cfg.n_segments /\ SweptRef(b)[1] = cfg.n_segments
    \/ SweptRef(a)[2] = 0 /\ SweptRef(b)[2] = 0
    \/ SweptRef(a)[2] = cfg.subdivisions /\ SweptRef(b)[2] = cfg.subdivisions

\* C17: in the index buffer of a swept tube no edge is used by more than two
\* triangles; an edge off the four boundaries (first ring, last ring, column
\* 0, column subdivisions) is used by exactly two triangles that traverse it
\* in opposite directions; an edge on a boundary is used by exactly one
C17_Watertight ==
    (Built /\ cfg.mode = "swept")
        => \A e \in 1..Len(indices) :
              LET a == EdgeAt(e)[1]
                  b == EdgeAt(e)[2]
              IN /\ a # b
                 /\ Uses(a, b) + Uses(b, a) <= 2
                 /\ OnBoundary(a, b) => Uses(a, b) = 1 /\ Uses(b, a) = 0
                 /\ ~OnBoundary(a, b) => Uses(a, b) = 1 /\ Uses(b, a) = 1

\* a finished swept tube of several segments and columns whose index
\* buffer has edges on the boundary and edges off it
C17_Witness ==
    /\ Built
    /\ cfg.mode = "swept"
    /\ cfg.n_segments >= 2
    /\ cfg.subdivisions >= 2
    /\ \E e \in 1..Len(indices) :
          /\ ~OnBoundary(EdgeAt(e)[1], EdgeAt(e)[2])
          /\ Uses(EdgeAt(e)[2], EdgeAt(e)[1]) = 1
    /\ \E e \in 1..Len(indices) :
          /\ OnBoundary(EdgeAt(e)[1], EdgeAt(e)[2])
          /\ Uses(EdgeAt(e)[2], EdgeAt(e)[1]) = 0


\* the generator the swept builder starts from
FreshIter ==
    [rng |-> seed_from_u64(cfg.seed),
     yaw_range |-> cfg.yaw_range, pitch_range |-> cfg.pitch_range]

\* the generator after k calls of next
RECURSIVE IterAfter(_, _)
IterAfter(it, k) ==
    IF k = 0 THEN it ELSE IterAfter(WormNext(it).it, k - 1)

\* the k-th orientation step of the generator, counted from 1
StepAt(k) == WormNext(IterAfter(FreshIter, k - 1)).item

\* steps of the index loops and of the return that are still to run
IndexRank(n, m) ==
    IF n < cfg.n_segments
    THEN (cfg.subdivisions - m) + 1
            + (cfg.n_segments - n - 1) * (cfg.subdivisions + 1) + 2
    ELSE 2

\* steps of the ring loop that are still to run once `taken` rings are begun
RingRank == (cfg.n_segments + 1 - taken) * (cfg.subdivisions + 3)

\* number of steps a swept build still has to run
Rank ==
    CASE pc = "call" -> RingRank + 2 + IndexRank(0, 0)
      [] pc = "swept_ring" -> RingRank + 1 + IndexRank(0, 0)
      [] pc = "swept_vertex" ->
            RingRank + (cfg.subdivisions + 1 - i) + 2 + IndexRank(0, 0)
      [] pc = "swept_index" -> IndexRank(i, j)
      [] pc = "mesh" -> 1
      [] OTHER -> 0

\* what every state of a swept build with non-empty ranges satisfies: the
\* generator has a next step, the rings begun are the steps pulled, ring k
\* was built from step k, and the loop is left after n_segments + 1 steps
StepsInOrder ==
    (cfg.mode = "swept" /\ RangesNonEmpty /\ pc # "call")
        => /\ ~WormNext(worm_path_iter).panic
           /\ pc # "panicked"
           /\ taken = Len(rings)
           /\ taken <= cfg.n_segments + 1
           /\ worm_path_iter = IterAfter(FreshIter, taken)
           /\ \A k \in 1..Len(rings) :
                 /\ rings[k].rotation = StepAt(k)
                 /\ rings[k].forward = QApply(StepAt(k), cfg.forward)
           /\ pc \in {"swept_index", "mesh", "done", "collided"}
                 => taken = cfg.n_segments + 1
           /\ Rank >= 0

\* every step of a swept build that has not returned yet brings it closer
\* to its return
StepTowardsReturn ==
    (cfg.mode = "swept" /\ RangesNonEmpty /\ ~Built) => Rank' < Rank

\* C18: the generator always yields a next step, yet a swept build ends: it
\* pulls exactly n_segments + 1 steps, in order, ring k is built from the
\* k-th step, and every step of the build lowers the number of steps left
C18_PullsExactlyRingCount == [](StepsInOrder) /\ [][StepTowardsReturn]_vars

\* a finished swept tube of several rings built from different steps, whose
\* generator still has a step to give
C18_Witness ==
    /\ Built
    /\ cfg.mode = "swept"
    /\ cfg.n_segments >= 2
    /\ taken = cfg.n_segments + 1
    /\ rings[1].rotation = StepAt(1)
    /\ rings[3].rotation = StepAt(3)
    /\ StepAt(1) # StepAt(2)
    /\ ~WormNext(worm_path_iter).panic


\* the centre that follows ring k on the path
CentreAfter(k) ==
    VAdd(rings[k].centre, VScale(rings[k].forward, cfg.segment_length))

\* C19: in swept mode ring 0 is centred on the configured start, the centre
\* of ring k+1 is the centre of ring k plus ring k's forward times
\* segment_length, every vertex of ring k is placed around the centre of
\* ring k, and the position only moves on once all subdivisions + 1 vertices
\* of the ring have been pushed
C19_CentresChain ==
    cfg.mode = "swept"
        => /\ rings # <<>> => rings[1].centre = cfg.start
           /\ \A k \in 1..(Len(rings) - 1) : rings[k + 1].centre = CentreAfter(k)
           /\ \A v \in 1..Len(positions) :
                 positions[v] =
                    VAdd(CentreOf(v),
                         Offset(ForwardOf(v), Right(ForwardOf(v), cfg.radius),
                                (v - 1) % (cfg.subdivisions + 1), cfg.subdivisions))
           /\ pc = "swept_vertex"
                 => /\ position = rings[Len(rings)].centre
                    /\ Len(positions) = (Len(rings) - 1) * (cfg.subdivisions + 1) + i
           /\ pc = "swept_ring"
                 => /\ Len(positions) = Len(rings) * (cfg.subdivisions + 1)
                    /\ position = IF rings = <<>> THEN cfg.start
                                  ELSE CentreAfter(Len(rings))

\* a finished swept tube whose first three centres are three different
\* points, each one segment along the forward of the ring before it
C19_Witness ==
    /\ Built
    /\ cfg.mode = "swept"
    /\ cfg.subdivisions >= 1
    /\ Len(rings) >= 3
    /\ rings[1].centre = cfg.start
    /\ rings[2].centre = CentreAfter(1)
    /\ rings[3].centre = CentreAfter(2)
    /\ rings[2].centre # rings[1].centre
    /\ rings[3].centre # rings[2].centre
    /\ rings[1].forward # rings[2].forward


\* -------------------------------------------------------------------------
\* The builder and the extractor together
\* -------------------------------------------------------------------------

\* the number of triangles of the tube of the configuration
ExpectedTriangles ==
    IF cfg.mode = "swept" THEN 2 * cfg.n_segments * cfg.subdivisions
    ELSE 2 * cfg.subdivisions

\* C20: the index buffer of either builder always holds whole triangles, and
\* mesh_to_collider_shape of the mesh a builder returns is Some, with every
\* vertex and with 2 * n_segments * subdivisions triangles (2 * subdivisions
\* in straight mode): no index is dropped
C20_PipelineComposes ==
    /\ Len(indices) % 3 = 0
    /\ Built => /\ mesh.indices.vals = indices
                /\ IndexCount = 3 * ExpectedTriangles
    /\ Extracted => /\ collider.some
                    /\ Len(collider.indices) = ExpectedTriangles
                    /\ 3 * Len(collider.indices) = IndexCount
                    /\ Len(collider.vertices) = VertexCount

\* the collider of the level's tube: 10 segments of 10 quads
C20_Witness ==
    /\ Extracted
    /\ cfg.mode = "swept"
    /\ cfg.n_segments = 10
    /\ cfg.subdivisions = 10
    /\ collider.some
    /\ Len(collider.indices) = 200
    /\ collider.indices[200] = << mesh.indices.vals[598], mesh.indices.vals[599],
                                  mesh.indices.vals[600] >>


\* -------------------------------------------------------------------------
\* The game states and the round (src/main.rs)
\* -------------------------------------------------------------------------

\* Option::None of PlayerState::entity and of PlayerState::end
NoEntity == <<>>
NoTime == -1

\* PlayerState::new (the name and the colour are left out)
PlayerStateNew(start) ==
    [entity |-> NoEntity, start |-> start, end |-> NoTime, distance |-> 0,
     finished |-> FALSE]

Players == 1..Len(round.players)

\* State::set(to): Err(AlreadyInState) and Err(StateAlreadyQueued) leave the
\* schedule as it is, and every caller drops the result with .ok()
StateSet(to, by) ==
    IF state = to \/ queued # NoTransition THEN queued
    ELSE [to |-> to, by |-> by]

\* the commands that the loop over round.players queues: one command op for
\* each player of hit, in the order of the players, on the entity given
Pushed(hit, op, entity) ==
    LET order == SelectSeq([p \in Players |-> p], LAMBDA p : p \in hit)
    IN [k \in 1..Len(order) |-> [op |-> op, entity |-> entity[order[k]]]]

\* button_system, on_update(GameState::Menu): a click asks for Playing
ButtonSystem ==
    /\ state = "Menu"
    /\ queued = NoTransition
    /\ rounds < MaxRounds
    /\ \E interaction \in {"Clicked", "Hovered", "None"} :
          queued' = IF interaction = "Clicked"
                    THEN StateSet("Playing", "button_system")
                    ELSE queued
    /\ UNCHANGED <<state, round, now, world, commands, ran, rounds, spawned>>
    /\ UNCHANGED <<cfg, pc, build, mesh, collider, history>>

\* despawn_all_balls, on_exit(GameState::Playing)
despawn_all_balls(players) ==
    [p \in 1..Len(players) |-> [players[p] EXCEPT !.entity = NoEntity]]

\* the State driver applies the scheduled transition between two frames: the
\* on_exit systems of the old state, then the on_enter systems of the new
\* one (start_round for Playing, setup_game_over for GameOver)
StateTransition ==
    /\ queued # NoTransition
    /\ ran = {}
    /\ state' = queued.to
    /\ LET left == IF state = "Playing"
                   THEN despawn_all_balls(round.players) ELSE round.players
           gone == IF state = "Playing"
                   THEN { round.players[p].entity : p \in Players } ELSE {}
       IN /\ world' = world \ gone
          /\ IF queued.to = "Playing"
             THEN /\ \E delay \in [1..N_PLAYERS -> 0..(MAX_DISADVANTAGE_MS - 1)] :
                        round' = [start |-> 0,
                                  players |-> [p \in 1..N_PLAYERS |->
                                                 PlayerStateNew(0 + delay[p])]]
                  /\ now' = 0
                  /\ rounds' = rounds + 1
                  /\ spawned' = [p \in 1..N_PLAYERS |-> 0]
                  /\ queued' = NoTransition
             ELSE /\ round' = [round EXCEPT !.players = left]
                  /\ UNCHANGED <<now, rounds, spawned>>
                  /\ queued' = IF queued.to = "GameOver"
                               THEN [to |-> "Menu", by |-> "setup_game_over"]
                               ELSE NoTransition
    /\ UNCHANGED <<commands, ran>>
    /\ UNCHANGED <<cfg, pc, build, mesh, collider, history>>

\* a frame of on_update(Playing) may start, or is under way
InFrame == state = "Playing" /\ (ran # {} \/ queued = NoTransition)

\* the spawn test without the check of the end time
MaySpawnIgnoringEnd(player, t) ==
    player.entity = NoEntity /\ t > player.start

\* player.entity.is_none() && player.end.is_none() && now > player.start
MaySpawn(player, t) ==
    player.entity = NoEntity /\ player.end = NoTime /\ t > player.start

\* the Entity that commands.spawn_bundle hands out for player p
NewEntity(p) == <<rounds, p, spawned[p] + 1>>

\* spawn_balls, on_update(GameState::Playing)
SpawnBalls ==
    /\ InFrame
    /\ "spawn_balls" \notin ran
    /\ LET Due(p) == MaySpawn(round.players[p], now)
           due == { p \in Players : Due(p) }
       IN /\ round' = [round EXCEPT !.players =
                         [p \in Players |->
                            IF Due(p)
                            THEN [round.players[p] EXCEPT !.entity = NewEntity(p)]
                            ELSE round.players[p]]]
          /\ commands' = commands \o Pushed(due, "spawn", [p \in Players |-> NewEntity(p)])
          /\ spawned' = [p \in Players |-> IF Due(p) THEN spawned[p] + 1 ELSE spawned[p]]
    /\ ran' = ran \cup {"spawn_balls"}
    /\ UNCHANGED <<state, queued, now, world, rounds>>
    /\ UNCHANGED <<cfg, pc, build, mesh, collider, history>>

\* the end of the round asked for one player early
AllButOneFinished(finished_count) == finished_count >= N_PLAYERS - 1

\* finished_count >= N_PLAYERS
AllFinished(finished_count) == finished_count >= N_PLAYERS

\* where the physics has put a ball: on the track, below bounds.y, or at or
\* beyond bounds.z
Seen == {"track", "fell", "goal"}

\* despawn_balls, on_update(GameState::Playing): a ball that left the bounds
\* ends its player's round; the round is over when every player has an end
DespawnBalls ==
    /\ InFrame
    /\ "despawn_balls" \notin ran
    /\ \E at \in [Players -> Seen] :
          LET Alive(p) == /\ round.players[p].entity # NoEntity
                          /\ round.players[p].entity \in world
              Out(p) == Alive(p) /\ at[p] # "track"
              out == { p \in Players : Out(p) }
              after == [p \in Players |->
                          IF ~Alive(p) THEN round.players[p]
                          ELSE IF ~Out(p)
                          THEN [round.players[p] EXCEPT !.distance = 1]
                          ELSE [round.players[p] EXCEPT
                                  !.distance = IF at[p] = "goal" THEN 2 ELSE 1,
                                  !.end = now,
                                  !.finished = IF at[p] = "goal" THEN TRUE ELSE @,
                                  !.entity = NoEntity]]
              finished_count == Cardinality({ p \in Players : after[p].end # NoTime })
          IN /\ \A p \in Players : ~Alive(p) => at[p] = "track"
             /\ round' = [round EXCEPT !.players = after]
             /\ commands' = commands \o Pushed(out, "despawn",
                                               [p \in Players |-> round.players[p].entity])
             /\ queued' = IF AllFinished(finished_count)
                          THEN StateSet("GameOver", "despawn_balls")
                          ELSE queued
    /\ ran' = ran \cup {"despawn_balls"}
    /\ UNCHANGED <<state, now, world, rounds, spawned>>
    /\ UNCHANGED <<cfg, pc, build, mesh, collider, history>>

\* the world after the queued commands
Applied(w, cmds) ==
    (w \cup { cmds[k].entity : k \in { n \in 1..Len(cmds) : cmds[n].op = "spawn" } })
        \ { cmds[k].entity : k \in { n \in 1..Len(cmds) : cmds[n].op = "despawn" } }

\* the end of a frame: the stage applies the commands of its systems, and
\* the clock may have moved on by the next frame
EndFrame ==
    /\ state = "Playing"
    /\ ran = {"spawn_balls", "despawn_balls"}
    /\ world' = Applied(world, commands)
    /\ commands' = <<>>
    /\ ran' = {}
    /\ now' \in {now, IF now < MAX_DISADVANTAGE_MS THEN now + 1 ELSE now}
    /\ UNCHANGED <<state, queued, round, rounds, spawned>>
    /\ UNCHANGED <<cfg, pc, build, mesh, collider, history>>

InitGame ==
    /\ cfg = LevelPath(1234)
    /\ history = <<>>
    /\ Entry
    /\ GameEntry

NextGame ==
    \/ ButtonSystem
    \/ StateTransition
    \/ SpawnBalls
    \/ DespawnBalls
    \/ EndFrame

SpecGame == InitGame /\ [][NextGame]_vars


\* -------------------------------------------------------------------------
\* Properties of the game states and of the round
\* -------------------------------------------------------------------------

\* every player of the round has an end time
AllEnded ==
    /\ Len(round.players) = N_PLAYERS
    /\ \A p \in Players : round.players[p].end # NoTime

\* what holds of the schedule in every state: Playing is asked for in Menu by
\* the button, GameOver in Playing by despawn_balls with every end time set,
\* Menu as soon as GameOver is entered
ScheduleJustified ==
    /\ state \in {"Menu", "Playing", "GameOver"}
    /\ state = "GameOver" => queued = [to |-> "Menu", by |-> "setup_game_over"]
    /\ queued.to = "Playing" => state = "Menu" /\ queued.by = "button_system"
    /\ queued.to = "Menu" => state = "GameOver"
    /\ queued.to = "GameOver"
          => state = "Playing" /\ queued.by = "despawn_balls" /\ AllEnded

\* the moves a step may make: the state changes only along Menu -> Playing,
\* Playing -> GameOver, GameOver -> Menu, and GameOver is only put on the
\* schedule by a step after which every player has an end time
MoveAllowed ==
    /\ state' # state
          => /\ <<state, state'>> \in { <<"Menu", "Playing">>,
                                         <<"Playing", "GameOver">>,
                                         <<"GameOver", "Menu">> }
             /\ queued.to = state'
    /\ (queued'.to = "GameOver" /\ queued.to # "GameOver")
          => /\ state = "Playing"
             /\ Len(round'.players) = N_PLAYERS
             /\ \A p \in 1..N_PLAYERS : round'.players[p].end # NoTime

\* C21: the game state only moves Menu -> Playing (asked for by a click),
\* Playing -> GameOver and GameOver -> Menu (asked for on entering
\* GameOver); GameOver is asked for only when all N_PLAYERS players of the
\* round have an end time, never while one has none
C21_StateCycle == [](ScheduleJustified) /\ [][MoveAllowed]_vars

\* back in the menu after a whole round, one player having finished and
\* another having fallen off
C21_Witness ==
    /\ state = "Menu"
    /\ queued = NoTransition
    /\ rounds = 1
    /\ AllEnded
    /\ \E p, q \in Players :
          round.players[p].finished /\ ~round.players[q].finished

\* the balls of player p: those in the world and those whose spawn is queued
BallsOf(p) ==
    { e \in world \cup { commands[k].entity : k \in 1..Len(commands) } : e[2] = p }

\* what holds of every player in every state of a round
OneBallEach ==
    \A p \in Players :
        LET player == round.players[p]
        IN /\ Cardinality(BallsOf(p)) <= 1
           /\ spawned[p] <= 1
           /\ player.entity # NoEntity => BallsOf(p) = {player.entity}
           /\ player.end # NoTime => player.entity = NoEntity
           /\ player.finished => player.end # NoTime
           /\ (player.end # NoTime /\ commands = <<>>) => BallsOf(p) = {}

\* a step of a round spawns a ball only for a player without entity and
\* without end time whose start time has passed, and never takes an end
\* time back
SpawnJustified ==
    rounds' = rounds
        => \A p \in Players :
              /\ spawned'[p] > spawned[p]
                    => /\ round.players[p].entity = NoEntity
                       /\ round.players[p].end = NoTime
                       /\ now > round.players[p].start
                       /\ round'.players[p].entity # NoEntity
              /\ round.players[p].end # NoTime
                    => /\ round'.players[p].end = round.players[p].end
                       /\ spawned'[p] = spawned[p]

\* C22: within a round, whatever the order of spawn_balls and despawn_balls
\* in its frames, a player has at most one ball; a ball is spawned only
\* while the player has no entity, no end time and a start time in the past;
\* a player with an end time has no entity and is not spawned again; and
\* finished implies that the end time is set
C22_OneBallPerPlayer == [](OneBallEach) /\ [][SpawnJustified]_vars

\* a round in which one player has finished and lost its ball, in a frame
\* in which both systems have run again since, while another player still
\* waits for its start time
C22_Witness ==
    /\ state = "Playing"
    /\ ran = {"spawn_balls", "despawn_balls"}
    /\ commands = <<>>
    /\ \E p, q \in Players :
          /\ round.players[p].finished
          /\ round.players[p].entity = NoEntity
          /\ spawned[p] = 1
          /\ BallsOf(p) = {}
          /\ spawned[q] = 0
          /\ now <= round.players[q].start

====
